---- MODULE Spec2Model ----
(***************************************************************************)
(* Screenshot upload server: POST /upload-batch (src/server.js) and the    *)
(* earlier single-image variant POST /upload-binary (src/unnamed/part_000).*)
(*                                                                         *)
(* Strings are sequences of one-character strings, so that the regular     *)
(* expressions, the key templates and the base64 decoder are computed      *)
(* character by character.  A JSON value is a record tagged by t:          *)
(*   [t |-> "undef"]  an absent property                                   *)
(*   [t |-> "null"], [t |-> "num", n |-> n], [t |-> "str", v |-> s]        *)
(*   [t |-> "arr", a |-> sequence of JSON values]                          *)
(*   [t |-> "obj", ...]  a JSON object; a screenshot object carries        *)
(*       filename, extension and image; an object sent as an identifier    *)
(*       carries printable: FALSE when its own "toString" property hides   *)
(*       Object.prototype.toString with a non-function (String(x) and      *)
(*       `${x}` then throw a TypeError)                                    *)
(***************************************************************************)
EXTENDS Integers, Sequences, FiniteSets, TLC

VARIABLES
    req,          \* req.body of the /upload-batch request
    pc,           \* position of the /upload-batch handler
    i,            \* loop index of the per-item loop (0-based, as in the code)
    results,      \* the results object (NoResults before it is created)
    inflight,     \* s3.send calls of the batch not yet settled
    putLog,       \* every PutObjectCommand the batch has sent, in order
    store,        \* the bucket: key -> body
    response,     \* what res.status(..).json(..) sent (NoResponse before)
    binReq,       \* headers and body chunks of the /upload-binary request
    binPc,        \* position of the /upload-binary handler
    binKey,       \* key computed by the /upload-binary handler
    binChunks,    \* chunks pushed by the "data" listener
    binPut,       \* outcome of the /upload-binary s3.send: none/pending/ok/failed
    binResponse,  \* response of the /upload-binary request
    sanIn,        \* input of sanitizeMobileNumber
    sanOut,       \* sanitizeMobileNumber(sanIn)
    sanTwice,     \* sanitizeMobileNumber(sanOut)
    sanPc         \* how many times the sanitizer has been applied

batchVars == <<req, pc, i, results, inflight, putLog, response>>
binVars == <<binReq, binPc, binKey, binChunks, binPut, binResponse>>
sanVars == <<sanIn, sanOut, sanTwice, sanPc>>
vars == <<batchVars, store, binVars, sanVars>>

-----------------------------------------------------------------------------
(* Bounds of the model *)

\* longest batch whose items are enumerated freely
MaxBatch == 3
\* longest identifier string enumerated for the UUID fields
MaxUuidLen == 2
\* longest string enumerated for sanitizeMobileNumber
MaxStrLen == 3
\* largest Date.now() difference between the start and the end of a request
MaxClock == 1
\* most body chunks of an /upload-binary request
MaxChunks == 3

-----------------------------------------------------------------------------
(* JavaScript values *)

Undef == [t |-> "undef"]
Null == [t |-> "null"]
Num(n) == [t |-> "num", n |-> n]
Str(s) == [t |-> "str", v |-> s]
Arr(s) == [t |-> "arr", a |-> s]
\* JSON.parse('{"toString": null}'): an object that cannot be converted to a string
BadObj == [t |-> "obj", printable |-> FALSE]

\* ToBoolean
Truthy(x) ==
    CASE x.t = "undef" -> FALSE
      [] x.t = "null" -> FALSE
      [] x.t = "num" -> x.n # 0
      [] x.t = "str" -> x.v # <<>>
      [] OTHER -> TRUE

\* typeof x === "string"
IsString(x) == x.t = "str"

\* typeof x === "object" (null included, as in JavaScript)
TypeofObject(x) == x.t \in {"null", "obj", "arr"}

\* ToString(x) throws: OrdinaryToPrimitive finds no callable toString/valueOf result
ToStringThrows(x) == x.t = "obj" /\ "printable" \in DOMAIN x /\ ~x.printable

\* property read x.name on a value that is not null/undefined (undefined when missing)
Prop(x, name) == IF x.t = "obj" /\ name \in DOMAIN x THEN x[name] ELSE Undef

DecDigits == <<"0", "1", "2", "3", "4", "5", "6", "7", "8", "9">>

\* Number.prototype.toString for a non-negative integer
RECURSIVE NumToStr(_)
NumToStr(n) ==
    IF n < 10 THEN <<DecDigits[n + 1]>>
    ELSE NumToStr(n \div 10) \o <<DecDigits[(n % 10) + 1]>>

\* (num / den).toFixed(2) for non-negative integers: two decimals, rounded half up
ToFixed2(num, den) ==
    LET h == (num * 200 + den) \div (2 * den)
    IN NumToStr(h \div 100) \o <<".">> \o <<DecDigits[((h \div 10) % 10) + 1]>>
                            \o <<DecDigits[(h % 10) + 1]>>

\* String(x) / `${x}` for the values that convert
ToStr(x) ==
    CASE x.t = "str" -> x.v
      [] x.t = "num" -> NumToStr(x.n)
      [] x.t = "null" -> <<"n", "u", "l", "l">>
      [] x.t = "undef" -> <<"u", "n", "d", "e", "f", "i", "n", "e", "d">>
      [] OTHER -> <<"[", "o", "b", "j", "e", "c", "t", " ", "O", "b", "j", "e", "c", "t", "]">>

LowerChars ==
    <<"a", "b", "c", "d", "e", "f", "g", "h", "i", "j", "k", "l", "m",
      "n", "o", "p", "q", "r", "s", "t", "u", "v", "w", "x", "y", "z">>
UpperChars ==
    <<"A", "B", "C", "D", "E", "F", "G", "H", "I", "J", "K", "L", "M",
      "N", "O", "P", "Q", "R", "S", "T", "U", "V", "W", "X", "Y", "Z">>

Range(s) == {s[k] : k \in DOMAIN s}

\* the character class [a-zA-Z0-9]
AlnumChars == Range(LowerChars) \cup Range(UpperChars) \cup Range(DecDigits)

\* position of c in the sequence s (0 when absent)
IndexOf(s, c) == IF c \in Range(s) THEN CHOOSE k \in DOMAIN s : s[k] = c ELSE 0

\* String.prototype.toLowerCase
ToLowerCase(s) ==
    [k \in DOMAIN s |->
        IF s[k] \in Range(UpperChars) THEN LowerChars[IndexOf(UpperChars, s[k])] ELSE s[k]]

\* String.prototype.split(sep) for a one-character separator
RECURSIVE Split(_, _)
Split(s, sep) ==
    IF sep \notin Range(s) THEN <<s>>
    ELSE LET p == CHOOSE k \in DOMAIN s : s[k] = sep /\ \A m \in 1..(k - 1) : s[m] # sep
         IN <<SubSeq(s, 1, p - 1)>> \o Split(SubSeq(s, p + 1, Len(s)), sep)

\* every string over the alphabet of at most n characters
RECURSIVE StringsUpTo(_, _)
StringsUpTo(alphabet, n) ==
    IF n = 0 THEN {<<>>}
    ELSE LET shorter == StringsUpTo(alphabet, n - 1)
         IN shorter \cup {Append(s, c) : s \in shorter, c \in alphabet}

-----------------------------------------------------------------------------
(* Program constants and helpers of src/server.js *)

DEFAULT_IMAGE_EXTENSION == <<"j", "p", "g">>
PRE_INSPECTION == <<"P", "R", "E", "_", "I", "N", "S", "P", "E", "C", "T", "I", "O", "N">>
PRE_INSPECTION_PRDP == PRE_INSPECTION \o <<"_", "P", "R", "D", "P">>
MAX_BATCH_SIZE == 100
Unknown == <<"u", "n", "k", "n", "o", "w", "n">>

\* a || b
Or(a, b) == IF Truthy(a) THEN a ELSE b

\* .replace(/[^a-zA-Z0-9+]/g, "_")
ReplaceDisallowed(s) ==
    [k \in DOMAIN s |-> IF s[k] \in AlnumChars \cup {"+"} THEN s[k] ELSE "_"]

\* .replace(/_+/g, "_")
RECURSIVE CollapseUnderscores(_)
CollapseUnderscores(s) ==
    IF Len(s) < 2 THEN s
    ELSE IF s[1] = "_" /\ s[2] = "_" THEN CollapseUnderscores(Tail(s))
    ELSE <<s[1]>> \o CollapseUnderscores(Tail(s))

\* removes every leading occurrence of c
RECURSIVE StripLeading(_, _)
StripLeading(s, c) ==
    IF s # <<>> /\ s[1] = c THEN StripLeading(Tail(s), c) ELSE s

\* removes every trailing occurrence of c
RECURSIVE StripTrailing(_, _)
StripTrailing(s, c) ==
    IF s # <<>> /\ s[Len(s)] = c THEN StripTrailing(SubSeq(s, 1, Len(s) - 1), c) ELSE s

\* .replace(/^_+|_+$/g, "")
StripUnderscores(s) == StripTrailing(StripLeading(s, "_"), "_")

\* the sanitizer with its last line returning the stripped string as it is
MobileOrUnknown_NoFallback(sanitized) == sanitized

\* sanitized || "unknown"
MobileOrUnknown(sanitized) == IF sanitized = <<>> THEN Unknown ELSE sanitized

sanitizeMobileNumber(mobileNumber) ==
    IF ~Truthy(mobileNumber) \/ ~IsString(mobileNumber) THEN Unknown
    ELSE MobileOrUnknown(
             StripUnderscores(CollapseUnderscores(ReplaceDisallowed(mobileNumber.v))))

\* .replace(/[^a-zA-Z0-9\-_ ]/g, "")
UuidChars(s) == SelectSeq(s, LAMBDA c : c \in AlnumChars \cup {"-", "_", " "})

\* .trim(); after the filter the only white space left is the space
Trim(s) == StripTrailing(StripLeading(s, " "), " ")

\* sanitizeUuid returns null or a string; String(uuid) throws on an unprintable object
sanitizeUuidThrows(uuid) == Truthy(uuid) /\ ToStringThrows(uuid)
sanitizeUuid(uuid) ==
    IF ~Truthy(uuid) THEN Null ELSE Str(Trim(UuidChars(ToStr(uuid))))

formatSizeKB(bytes) == ToFixed2(bytes, 1024)

ImagePrefix == <<"i", "m", "a", "g", "e", "/">>

\* (extension || DEFAULT_IMAGE_EXTENSION).toLowerCase() throws unless it is a string
getImageContentTypeThrows(extension) ==
    ~IsString(Or(extension, Str(DEFAULT_IMAGE_EXTENSION)))
getImageContentType(extension) ==
    LET ext == ToLowerCase(Or(extension, Str(DEFAULT_IMAGE_EXTENSION)).v)
    IN CASE ext \in {<<"j", "p", "g">>, <<"j", "p", "e", "g">>} ->
                ImagePrefix \o <<"j", "p", "e", "g">>
         [] ext = <<"p", "n", "g">> -> ImagePrefix \o <<"p", "n", "g">>
         [] ext = <<"g", "i", "f">> -> ImagePrefix \o <<"g", "i", "f">>
         [] ext = <<"w", "e", "b", "p">> -> ImagePrefix \o <<"w", "e", "b", "p">>
         [] OTHER -> ImagePrefix \o ext

\* an error message; text holds the template, index the value of ${index} (-1: none)
Msg(text, index) == [text |-> text, index |-> index]

validateScreenshot(screenshot, index) ==
    IF ~Truthy(screenshot) \/ ~TypeofObject(screenshot)
    THEN [valid |-> FALSE, error |-> Msg("Screenshot at index ${index} is not an object", index)]
    ELSE IF ~Truthy(Prop(screenshot, "filename")) \/ ~IsString(Prop(screenshot, "filename"))
    THEN [valid |-> FALSE, error |-> Msg("Screenshot at index ${index} missing filename", index)]
    ELSE IF ~Truthy(Prop(screenshot, "image")) \/ ~IsString(Prop(screenshot, "image"))
    THEN [valid |-> FALSE, error |-> Msg("Screenshot at index ${index} missing image data", index)]
    ELSE [valid |-> TRUE]

-----------------------------------------------------------------------------
(* Buffer.from(image, "base64"): Node's decoder never throws.  It skips    *)
(* every character outside the base64 alphabets, stops at the first "=",   *)
(* and turns the sextets read so far into bytes, dropping a final          *)
(* incomplete byte.                                                        *)

Base64Chars == UpperChars \o LowerChars \o DecDigits \o <<"+", "/">>

IsBase64Char(c) == c \in Range(Base64Chars) \cup {"-", "_"}

Sextet(c) ==
    CASE c = "-" -> 62
      [] c = "_" -> 63
      [] OTHER -> IndexOf(Base64Chars, c) - 1

\* the sextets of the legal characters before the first "="
RECURSIVE Sextets(_)
Sextets(s) ==
    IF s = <<>> \/ s[1] = "=" THEN <<>>
    ELSE IF IsBase64Char(s[1]) THEN <<Sextet(s[1])>> \o Sextets(Tail(s))
    ELSE Sextets(Tail(s))

RECURSIVE BytesOf(_)
BytesOf(q) ==
    IF Len(q) < 2 THEN <<>>
    ELSE LET b1 == (q[1] * 4) + (q[2] \div 16)
         IN IF Len(q) = 2 THEN <<b1>>
            ELSE LET b2 == ((q[2] % 16) * 16) + (q[3] \div 4)
                 IN IF Len(q) = 3 THEN <<b1, b2>>
                    ELSE <<b1, b2, ((q[3] % 4) * 64) + q[4]>>
                             \o BytesOf(SubSeq(q, 5, Len(q)))

Base64Decode(image) == BytesOf(Sextets(image))

-----------------------------------------------------------------------------
(* POST /upload-batch *)

BUCKET == "S3_BUCKET_NAME"
NoResults == [total |-> -1]
NoResponse == [status |-> 0]
NoDetails == "null"

\* sendErrorResponse(res, statusCode, message, details = null)
sendErrorResponse(statusCode, message, details) ==
    [status |-> statusCode,
     body |-> IF details = NoDetails THEN [error |-> message]
              ELSE [error |-> message, details |-> details]]

\* the catch of the handler: sendErrorResponse(res, 500, "Batch upload failed", error.message)
BatchCatch(message) == sendErrorResponse(500, "Batch upload failed", message)

\* the child folder chosen whatever the journey type
ChildFolderUuid_IgnoreJourney(journeyType, sanitizedInspectionUuid, sanitizedPrdpUuid) ==
    IF Truthy(sanitizedPrdpUuid) THEN sanitizedPrdpUuid.v ELSE sanitizedInspectionUuid.v

\* let childFolderUuid
ChildFolderUuid(journeyType, sanitizedInspectionUuid, sanitizedPrdpUuid) ==
    IF journeyType = Str(PRE_INSPECTION_PRDP) /\ Truthy(sanitizedPrdpUuid)
    THEN sanitizedPrdpUuid.v
    ELSE sanitizedInspectionUuid.v

\* `${sanitizedMobileNumber}/${sanitizedInspectionUuid}/${childFolderUuid}`
FolderPath(sanitizedMobileNumber, sanitizedInspectionUuid, childFolderUuid) ==
    sanitizedMobileNumber \o <<"/">> \o sanitizedInspectionUuid \o <<"/">> \o childFolderUuid

\* `${folderPath}/${filename}.${imageExtension}`
ItemKey(folderPath, filename, imageExtension) ==
    folderPath \o <<"/">> \o filename \o <<".">> \o imageExtension

NotProvided == Str(<<"N", "o", "t", " ", "p", "r", "o", "v", "i", "d", "e", "d">>)

\* the debug logging: `${mobileNumber || "Not provided"}` and the like convert each
\* raw identifier to a string before anything is validated
DebugLogThrows(body) ==
    \/ ToStringThrows(Or(body.mobileNumber, NotProvided))
    \/ ToStringThrows(Or(body.inspectionUuid, NotProvided))
    \/ ToStringThrows(Or(body.prdpUuid, NotProvided))
    \/ ToStringThrows(Or(body.journeyType, NotProvided))

\* !screenshots || !Array.isArray(screenshots) || screenshots.length === 0
ScreenshotsMissing(screenshots) ==
    ~Truthy(screenshots) \/ screenshots.t # "arr" \/ Len(screenshots.a) = 0

\* the results object as created before the loop
InitialResults(body) ==
    LET sanitizedMobileNumber == sanitizeMobileNumber(body.mobileNumber)
        sanitizedInspectionUuid == sanitizeUuid(body.inspectionUuid)
        sanitizedPrdpUuid == sanitizeUuid(body.prdpUuid)
        childFolderUuid ==
            ChildFolderUuid(body.journeyType, sanitizedInspectionUuid, sanitizedPrdpUuid)
    IN [successful |-> 0,
        failed |-> 0,
        total |-> Len(body.screenshots.a),
        details |-> <<>>,
        userFolder |->
            FolderPath(sanitizedMobileNumber, sanitizedInspectionUuid.v, childFolderUuid),
        mobileNumber |-> sanitizedMobileNumber,
        inspectionUuid |-> sanitizedInspectionUuid.v,
        prdpUuid |-> Or(sanitizedPrdpUuid, Null),
        journeyType |-> Or(body.journeyType, Null)]

\* the handler up to the loop: logging, envelope validation, sanitizing, folder path
BatchStart ==
    /\ pc = "start"
    /\ IF DebugLogThrows(req)
       THEN /\ response' = BatchCatch("Cannot convert object to primitive value")
            /\ pc' = "done"
            /\ UNCHANGED results
       ELSE IF ScreenshotsMissing(req.screenshots)
       THEN /\ response' =
                   sendErrorResponse(400, "Missing or invalid screenshots array", NoDetails)
            /\ pc' = "done"
            /\ UNCHANGED results
       ELSE IF Len(req.screenshots.a) > MAX_BATCH_SIZE
       THEN /\ response' =
                   sendErrorResponse(400, "Batch size exceeds maximum of 100 files", NoDetails)
            /\ pc' = "done"
            /\ UNCHANGED results
       ELSE IF sanitizeUuidThrows(req.inspectionUuid) \/ sanitizeUuidThrows(req.prdpUuid)
       THEN /\ response' = BatchCatch("Cannot convert object to primitive value")
            /\ pc' = "done"
            /\ UNCHANGED results
       ELSE IF ~Truthy(sanitizeUuid(req.inspectionUuid))
       THEN /\ response' = sendErrorResponse(400, "Inspection UUID is required", NoDetails)
            /\ pc' = "done"
            /\ UNCHANGED results
       ELSE /\ results' = InitialResults(req)
            /\ pc' = "loop"
            /\ UNCHANGED response
    /\ UNCHANGED <<req, i, inflight, putLog, store, binVars, sanVars>>

\* results.failed++; results.details.push({index, filename, status: "failed", error})
PushFailed(r, index, filename, error) ==
    [r EXCEPT !.failed = @ + 1,
              !.details = Append(@, [index |-> index,
                                     filename |-> Or(filename, Str(Unknown)),
                                     status |-> "failed",
                                     error |-> error])]

\* results.successful++; results.details.push({index, filename, key, status: "success", ..})
PushSuccess(r, cmd) ==
    [r EXCEPT !.successful = @ + 1,
              !.details = Append(@, [index |-> cmd.index,
                                     filename |-> Str(cmd.file),
                                     key |-> cmd.Key,
                                     status |-> "success",
                                     size |-> Len(cmd.Body),
                                     sizeKB |-> formatSizeKB(Len(cmd.Body))])]

\* the loop goes on to the next item without waiting for the put to settle
PcAfterSend_NoAwait == "loop"

\* await s3.send(..): the loop is suspended until the put settles
PcAfterSend == "awaitPut"

\* one iteration of the loop, up to its continue, its catch or its await
BatchItem ==
    /\ pc = "loop"
    /\ i < Len(req.screenshots.a)
    /\ LET screenshot == req.screenshots.a[i + 1]
           filename == Prop(screenshot, "filename")
           extension == Prop(screenshot, "extension")
           image == Prop(screenshot, "image")
           validation == validateScreenshot(screenshot, i)
           imageExtension == Or(extension, Str(DEFAULT_IMAGE_EXTENSION))
       IN IF screenshot.t \in {"null", "undef"}
          THEN \* const { filename, .. } = screenshot throws outside the inner try
               /\ response' = BatchCatch(
                      "Cannot destructure property 'filename' of 'screenshot' as it is null.")
               /\ pc' = "done"
               /\ UNCHANGED <<i, results, inflight, putLog>>
          ELSE IF ~validation.valid
          THEN /\ results' = PushFailed(results, i, filename, validation.error)
               /\ i' = i + 1
               /\ UNCHANGED <<pc, response, inflight, putLog>>
          ELSE IF Len(Base64Decode(image.v)) = 0
          THEN /\ results' = PushFailed(results, i, filename,
                                 Msg("Invalid base64 data: Empty image data", -1))
               /\ i' = i + 1
               /\ UNCHANGED <<pc, response, inflight, putLog>>
          ELSE IF getImageContentTypeThrows(extension)
          THEN /\ results' = PushFailed(results, i, filename,
                                 Msg("(extension || DEFAULT_IMAGE_EXTENSION).toLowerCase is not a function", -1))
               /\ i' = i + 1
               /\ UNCHANGED <<pc, response, inflight, putLog>>
          ELSE LET cmd == [Bucket |-> BUCKET,
                           Key |-> ItemKey(results.userFolder, filename.v, ToStr(imageExtension)),
                           Body |-> Base64Decode(image.v),
                           ContentType |-> getImageContentType(extension),
                           file |-> filename.v \o <<".">> \o ToStr(imageExtension),
                           index |-> i,
                           seen |-> Len(results.details),
                           seq |-> Len(putLog) + 1]
               IN /\ inflight' = inflight \cup {cmd}
                  /\ putLog' = Append(putLog, cmd)
                  /\ pc' = PcAfterSend
                  /\ UNCHANGED <<i, results, response>>
    /\ UNCHANGED <<req, store, binVars, sanVars>>

\* an object put under a key that exists is dropped
StoreAfterPut_KeepFirst(bucket, key, body) ==
    IF key \in DOMAIN bucket THEN bucket ELSE (key :> body) @@ bucket

\* PutObject: the object under the key is created or replaced
StoreAfterPut(bucket, key, body) == (key :> body) @@ bucket

\* s3.send resolves
BatchPutOk ==
    /\ pc # "done"
    /\ \E cmd \in inflight :
         /\ inflight' = inflight \ {cmd}
         /\ store' = StoreAfterPut(store, cmd.Key, cmd.Body)
         /\ results' = PushSuccess(results, cmd)
    /\ i' = i + 1
    /\ pc' = "loop"
    /\ UNCHANGED <<req, putLog, response, binVars, sanVars>>

\* s3.send rejects: the inner catch records the backend's message
BatchPutFail ==
    /\ pc # "done"
    /\ \E cmd \in inflight :
         /\ inflight' = inflight \ {cmd}
         /\ results' = PushFailed(results, cmd.index,
                           Prop(req.screenshots.a[cmd.index + 1], "filename"),
                           Msg("S3 error", -1))
    /\ i' = i + 1
    /\ pc' = "loop"
    /\ UNCHANGED <<req, putLog, store, response, binVars, sanVars>>

\* after the loop: duration, avgTimePerFile, status code and the report
BatchRespond ==
    /\ pc = "loop"
    /\ i >= Len(req.screenshots.a)
    /\ \E duration \in 0..MaxClock :
         response' =
             [status |-> IF results.successful > 0 THEN 200 ELSE 500,
              body |-> [message |-> [text |-> "Batch upload: ${successful}/${total} successful",
                                     successful |-> results.successful,
                                     total |-> results.total],
                        bucket |-> BUCKET,
                        duration |-> duration,
                        avgTimePerFile |->
                            IF Len(req.screenshots.a) > 0
                            THEN ToFixed2(duration, Len(req.screenshots.a))
                            ELSE <<"0", ".", "0", "0">>]
                       @@ results]
    /\ pc' = "done"
    /\ UNCHANGED <<req, i, results, inflight, putLog, store, binVars, sanVars>>

-----------------------------------------------------------------------------
(* POST /upload-binary (src/unnamed/part_000) *)

\* contentType?.split("/")[1] || "jpg"
BinaryExtension(contentType) ==
    IF contentType.t = "str" /\ Len(Split(contentType.v, "/")) >= 2
          /\ Split(contentType.v, "/")[2] # <<>>
    THEN Split(contentType.v, "/")[2]
    ELSE <<"j", "p", "g">>

\* `${Date.now()}-${filename}.${extension}`
BinaryKey(now, filename, extension) ==
    NumToStr(now) \o <<"-">> \o filename \o <<".">> \o extension

\* Buffer.concat(chunks)
RECURSIVE Concat(_)
Concat(chunks) == IF chunks = <<>> THEN <<>> ELSE Head(chunks) \o Concat(Tail(chunks))

\* the handler itself: reads the headers and registers the "data" and "end" listeners
BinaryStart ==
    /\ binPc = "start"
    /\ IF ~Truthy(binReq.filename)
       THEN /\ binResponse' = [status |-> 400, body |-> [error |-> "Missing filename in headers"]]
            /\ binPc' = "done"
            /\ UNCHANGED binKey
       ELSE /\ \E now \in 0..MaxClock :
                 binKey' = BinaryKey(now, binReq.filename.v, BinaryExtension(binReq.contentType))
            /\ binPc' = "receiving"
            /\ UNCHANGED binResponse
    /\ UNCHANGED <<binReq, binChunks, binPut, store, batchVars, sanVars>>

\* req.on("data", (chunk) => chunks.push(chunk))
BinaryData ==
    /\ binPc = "receiving"
    /\ binReq.pending # <<>>
    /\ binChunks' = Append(binChunks, Head(binReq.pending))
    /\ binReq' = [binReq EXCEPT !.pending = Tail(@)]
    /\ UNCHANGED <<binPc, binKey, binPut, binResponse, store, batchVars, sanVars>>

\* req.on("end", async () => ..) up to its await s3.send(..)
BinaryEnd ==
    /\ binPc = "receiving"
    /\ binReq.pending = <<>>
    /\ binPut' = "pending"
    /\ binPc' = "awaitPut"
    /\ UNCHANGED <<binReq, binKey, binChunks, binResponse, store, batchVars, sanVars>>

\* s3.send resolves: the listener logs and answers
BinaryPutOk ==
    /\ binPc = "awaitPut"
    /\ binPut' = "ok"
    /\ store' = StoreAfterPut(store, binKey, Concat(binChunks))
    /\ binResponse' = [status |-> 200,
                       body |-> [message |-> "Upload successful (Binary -> S3)",
                                 key |-> binKey,
                                 bucket |-> BUCKET,
                                 size |-> Len(Concat(binChunks)),
                                 timestamp |-> binReq.timestamp]]
    /\ binPc' = "done"
    /\ UNCHANGED <<binReq, binKey, binChunks, batchVars, sanVars>>

\* s3.send rejects inside the async "end" listener: the promise the listener returned
\* is rejected and nobody handles it; the handler's try/catch returned long ago
BinaryPutFail ==
    /\ binPc = "awaitPut"
    /\ binPut' = "failed"
    /\ binPc' = "unhandledRejection"
    /\ UNCHANGED <<binReq, binKey, binChunks, binResponse, store, batchVars, sanVars>>

-----------------------------------------------------------------------------
(* sanitizeMobileNumber applied to its own result *)

SanApply ==
    /\ sanPc = 0
    /\ sanOut' = sanitizeMobileNumber(sanIn)
    /\ sanPc' = 1
    /\ UNCHANGED <<sanIn, sanTwice, store, batchVars, binVars>>

SanApplyAgain ==
    /\ sanPc = 1
    /\ sanTwice' = sanitizeMobileNumber(Str(sanOut))
    /\ sanPc' = 2
    /\ UNCHANGED <<sanIn, sanOut, store, batchVars, binVars>>

-----------------------------------------------------------------------------
(* Requests *)

Shot(filename, extension, image) ==
    [t |-> "obj", filename |-> filename, extension |-> extension, image |-> image]

FileF == Str(<<"f">>)
FileG == Str(<<"g">>)
\* base64 of "ABC" and of "A"
ImageABC == Str(<<"Q", "U", "J", "D">>)
ImageA == Str(<<"Q", "Q", "=", "=">>)
\* not base64, yet two of its characters are in the alphabet
ImageNotBase64 == Str(<<"n", "o", "!">>)
\* not base64, no character in the alphabet
ImageGarbage == Str(<<"!", "!">>)

Items ==
    { Null,
      Num(7),
      Str(<<"x">>),
      Shot(FileF, Undef, ImageABC),
      Shot(FileF, Str(<<"j", "p", "g">>), ImageA),
      Shot(FileG, Str(<<"P", "N", "G">>), ImageNotBase64),
      Shot(FileG, Undef, ImageGarbage),
      Shot(Undef, Undef, ImageABC),
      Shot(FileF, Undef, Str(<<>>)),
      Shot(FileG, Num(5), ImageA) }

RECURSIVE SeqsUpTo(_, _)
SeqsUpTo(S, n) ==
    IF n = 0 THEN {<<>>}
    ELSE LET shorter == SeqsUpTo(S, n - 1)
         IN shorter \cup {Append(q, x) : q \in shorter, x \in S}

UuidInputs == {Undef, BadObj} \cup {Str(s) : s \in StringsUpTo({"a", "/", " "}, MaxUuidLen)}
MobileInputs == {Undef, BadObj, Str(<<"+", "1", " ", "(", "2", ")">>)}
JourneyInputs == {Undef, Str(PRE_INSPECTION), Str(PRE_INSPECTION_PRDP)}

\* envelopes: every identifier combination with a few screenshots values
EnvelopeScreenshots ==
    { Undef,
      Str(<<"x">>),
      Arr(<<>>),
      Arr([k \in 1..(MAX_BATCH_SIZE + 1) |-> Null]),
      Arr(<<Shot(FileF, Undef, ImageABC)>>) }

EnvelopeRequests ==
    [mobileNumber : MobileInputs, inspectionUuid : UuidInputs, prdpUuid : UuidInputs,
     journeyType : JourneyInputs, screenshots : EnvelopeScreenshots]

\* batches: every item sequence of 1..MaxBatch items under one valid envelope
ItemRequests ==
    [mobileNumber : {Str(<<"+", "1", " ", "(", "2", ")">>)},
     inspectionUuid : {Str(<<"a">>)},
     prdpUuid : {Undef},
     journeyType : {Undef},
     screenshots : {Arr(q) : q \in SeqsUpTo(Items, MaxBatch) \ {<<>>}}]

BinaryRequests ==
    [filename : {Undef, Str(<<"a">>)},
     contentType : {Undef, Str(ImagePrefix \o <<"p", "n", "g">>), Str(<<"b", "i", "n">>),
                    Str(ImagePrefix)},
     timestamp : {Undef},
     pending : SeqsUpTo({<<1>>, <<2, 3>>}, MaxChunks)]

SanAlphabet == {"a", "+", "_", "-", " "}
SanInputs == {Str(s) : s \in StringsUpTo(SanAlphabet, MaxStrLen)} \cup {Str(Unknown)}

-----------------------------------------------------------------------------
(* Specifications *)

BatchIdle ==
    /\ req = Undef
    /\ pc = "idle"
    /\ i = 0
    /\ results = NoResults
    /\ inflight = {}
    /\ putLog = <<>>
    /\ response = NoResponse

BinaryIdle ==
    /\ binReq = Undef
    /\ binPc = "idle"
    /\ binKey = <<>>
    /\ binChunks = <<>>
    /\ binPut = "none"
    /\ binResponse = NoResponse

SanIdle ==
    /\ sanIn = Undef
    /\ sanOut = <<>>
    /\ sanTwice = <<>>
    /\ sanPc = -1

\* one /upload-batch request has arrived; the bucket is empty
Init ==
    /\ req \in EnvelopeRequests \cup ItemRequests
    /\ pc = "start"
    /\ i = 0
    /\ results = NoResults
    /\ inflight = {}
    /\ putLog = <<>>
    /\ response = NoResponse
    /\ store = <<>>
    /\ BinaryIdle
    /\ SanIdle

Next ==
    \/ BatchStart
    \/ BatchItem
    \/ BatchPutOk
    \/ BatchPutFail
    \/ BatchRespond

Spec == Init /\ [][Next]_vars

\* one /upload-binary request has arrived
BinaryInit ==
    /\ binReq \in BinaryRequests
    /\ binPc = "start"
    /\ binKey = <<>>
    /\ binChunks = <<>>
    /\ binPut = "none"
    /\ binResponse = NoResponse
    /\ store = <<>>
    /\ BatchIdle
    /\ SanIdle

BinaryNext ==
    \/ BinaryStart
    \/ BinaryData
    \/ BinaryEnd
    \/ BinaryPutOk
    \/ BinaryPutFail

SpecBinary == BinaryInit /\ [][BinaryNext]_vars

\* sanitizeMobileNumber is about to be applied to a string
SanInit ==
    /\ sanIn \in SanInputs
    /\ sanOut = <<>>
    /\ sanTwice = <<>>
    /\ sanPc = 0
    /\ store = <<>>
    /\ BatchIdle
    /\ BinaryIdle

SanNext ==
    \/ SanApply
    \/ SanApplyAgain

SpecSanitize == SanInit /\ [][SanNext]_vars

-----------------------------------------------------------------------------
(* Properties *)

\* the handler has passed the envelope validation and created the results object
PassedEnvelope == results # NoResults

\* the response body is the batch report (not an {error} body)
IsReport == response # NoResponse /\ "total" \in DOMAIN response.body

Items0(k) == req.screenshots.a[k + 1]

\* the item is an object with a filename and an image, as the validator demands
ValidItem(x) ==
    /\ x.t = "obj"
    /\ IsString(Prop(x, "filename")) /\ Prop(x, "filename").v # <<>>
    /\ IsString(Prop(x, "image")) /\ Prop(x, "image").v # <<>>

\* RFC 4648 base64: groups of four characters of the standard alphabet, the last
\* group padded with at most two "="
IsValidBase64(s) ==
    /\ Len(s) > 0
    /\ Len(s) % 4 = 0
    /\ \A k \in 1..Len(s) :
         \/ s[k] \in Range(Base64Chars)
         \/ /\ s[k] = "="
            /\ k >= Len(s) - 1
            /\ \A m \in (k + 1)..Len(s) : s[m] = "="

\* the envelope is invalid in one of the ways the specification lists
EnvelopeInvalid(body) ==
    \/ body.screenshots.t # "arr"
    \/ Len(body.screenshots.a) = 0
    \/ Len(body.screenshots.a) > 100
    \/ body.inspectionUuid.t = "undef"
    \/ /\ body.inspectionUuid.t = "str"
       /\ sanitizeUuid(body.inspectionUuid) \in {Null, Str(<<>>)}

\* C1: for every batch that passes envelope validation the response report has
\* successful + failed == total == screenshots.length and exactly one details entry
\* per input index, in input order, whatever the items are.
C1_ReportCoversEveryItem ==
    (pc = "done" /\ PassedEnvelope) =>
        /\ IsReport
        /\ response.body.successful + response.body.failed = response.body.total
        /\ response.body.total = Len(req.screenshots.a)
        /\ Len(response.body.details) = Len(req.screenshots.a)
        /\ \A k \in 1..Len(response.body.details) : response.body.details[k].index = k - 1

\* C2: an item that is not a non-null object yields a failed outcome "Screenshot at
\* index {i} is not an object", the loop goes on, and the response is the batch
\* report, never the 500 "Batch upload failed".
C2_NonObjectItemIsPerItemError ==
    (pc = "done" /\ PassedEnvelope) =>
        \A k \in 0..(Len(req.screenshots.a) - 1) :
            Items0(k).t \notin {"obj", "arr"} =>
                /\ IsReport
                /\ Len(response.body.details) = Len(req.screenshots.a)
                /\ response.body.details[k + 1].status = "failed"
                /\ response.body.details[k + 1].error =
                       Msg("Screenshot at index ${index} is not an object", k)

\* C3: for every batch that passes envelope validation the status is 200 exactly when
\* at least one item was uploaded and 500 otherwise, and the body is the full report
\* in both cases.
C3_StatusFollowsSuccessCount ==
    (pc = "done" /\ PassedEnvelope) =>
        /\ IsReport
        /\ {"message", "bucket", "successful", "failed", "total", "details", "duration",
            "avgTimePerFile"} \subseteq DOMAIN response.body
        /\ response.status = IF results.successful > 0 THEN 200 ELSE 500
        /\ response.body.successful = results.successful

\* C4: a request whose envelope is invalid (screenshots missing, not an array, empty
\* or longer than 100; inspectionUuid absent or empty after sanitizing) is answered
\* 400 with an {error} body and no storage put is issued.
C4_InvalidEnvelopeIs400 ==
    (pc = "done" /\ EnvelopeInvalid(req)) =>
        /\ response.status = 400
        /\ DOMAIN response.body = {"error"}
        /\ putLog = <<>>

\* C5: in a valid batch an item whose image is a non-empty string that is not valid
\* base64 gets a failed outcome and no storage put is made for it.
C5_NonBase64ItemFailsWithoutPut ==
    (pc = "done" /\ IsReport) =>
        \A k \in 0..(Len(req.screenshots.a) - 1) :
            (ValidItem(Items0(k)) /\ ~IsValidBase64(Items0(k).image.v)) =>
                /\ response.body.details[k + 1].status = "failed"
                /\ \A p \in DOMAIN putLog : putLog[p].index # k

\* C6: once the envelope is accepted the folder path has exactly three segments:
\* the sanitized mobile number, the sanitized inspection UUID, and the sanitized PRDP
\* UUID when journeyType is PRE_INSPECTION_PRDP and that UUID is non-empty, the
\* sanitized inspection UUID otherwise; every key put is the folder path followed by
\* "/{filename}.{extension or jpg}".
C6_FolderPathAndKeys ==
    PassedEnvelope =>
        LET segments == Split(results.userFolder, "/")
            inspection == sanitizeUuid(req.inspectionUuid)
            prdp == sanitizeUuid(req.prdpUuid)
        IN /\ Len(segments) = 3
           /\ \A k \in 1..3 : segments[k] # <<>>
           /\ segments[1] = sanitizeMobileNumber(req.mobileNumber)
           /\ segments[2] = inspection.v
           /\ segments[3] =
                  IF req.journeyType = Str(PRE_INSPECTION_PRDP) /\ prdp.t = "str" /\ prdp.v # <<>>
                  THEN prdp.v
                  ELSE inspection.v
           /\ IsReport => response.body.userFolder = results.userFolder
           /\ \A p \in DOMAIN putLog :
                  LET x == Items0(putLog[p].index)
                      ext == IF Truthy(x.extension) THEN x.extension.v ELSE <<"j", "p", "g">>
                  IN putLog[p].Key = results.userFolder \o <<"/">> \o x.filename.v \o <<".">> \o ext

\* a PRDP batch was put under a child folder that differs from the inspection folder
C6_Witness ==
    /\ pc = "done"
    /\ PassedEnvelope
    /\ req.journeyType = Str(PRE_INSPECTION_PRDP)
    /\ req.prdpUuid = Str(<<"/", "a">>)
    /\ req.inspectionUuid = Str(<<"a", " ">>)
    /\ results.userFolder = <<"+", "1", "_", "2", "/", "a", "/", "a">>
    /\ Len(putLog) = 1

\* C7: sanitizeMobileNumber is idempotent on strings and never returns the empty string.
C7_SanitizeIdempotent ==
    /\ sanPc >= 1 => sanOut # <<>>
    /\ sanPc = 2 => sanTwice = sanOut

\* a string of disallowed characters only went through the sanitizer twice
C7_Witness ==
    /\ sanPc = 2
    /\ sanIn = Str(<<"-", " ">>)
    /\ sanOut = Unknown
    /\ sanTwice = Unknown

\* C8: the puts of a request are sequential and in increasing item index: at most one
\* is in flight, the put of item j is sent only when the outcomes of all items before
\* j are in the report, and no item is put twice.
C8_PutsSequential ==
    /\ Cardinality(inflight) <= 1
    /\ \A p \in DOMAIN putLog : putLog[p].seen = putLog[p].index
    /\ \A p, q \in DOMAIN putLog : p < q => putLog[p].index < putLog[q].index
    /\ \A cmd \in inflight :
         /\ cmd = putLog[Len(putLog)]
         /\ Len(results.details) = cmd.index

\* three puts were sent one after the other, the first of which failed
C8_Witness ==
    /\ pc = "done"
    /\ Len(putLog) = 3
    /\ results.details[1].status = "failed"
    /\ results.details[1].error = Msg("S3 error", -1)
    /\ results.successful = 2

\* C9: two items with the same filename and extension whose puts both succeed are both
\* reported as success under the same key, with no error, and when the batch is done
\* the object under that key is the payload of the later item.
C9_LastWriterWins ==
    (pc = "done" /\ IsReport) =>
        \A j, k \in 1..Len(response.body.details) :
            LET dj == response.body.details[j]
                dk == response.body.details[k]
            IN (j < k /\ dj.status = "success" /\ dk.status = "success"
                      /\ dj.filename = dk.filename) =>
                   /\ dj.key = dk.key
                   /\ "error" \notin DOMAIN dj \cup DOMAIN dk
                   /\ (\A m \in (k + 1)..Len(response.body.details) :
                           response.body.details[m].status = "success"
                               => response.body.details[m].key # dk.key)
                        => /\ dk.key \in DOMAIN store
                           /\ store[dk.key] = Base64Decode(Items0(k - 1).image.v)

\* "f" with the default extension, then "f.jpg" with another payload, both stored
C9_Witness ==
    /\ pc = "done"
    /\ IsReport
    /\ req.screenshots.a = <<Shot(FileF, Undef, ImageABC), Shot(FileF, Str(<<"j", "p", "g">>), ImageA)>>
    /\ results.successful = 2
    /\ results.details[1].key = results.details[2].key
    /\ store[results.details[2].key] = <<65>>

\* C10: an /upload-binary request with an x-filename header is answered once its body
\* is received and the put has settled: the success body when the put succeeds, 500
\* {error: "Upload failed"} when it fails.
C10_BinaryAlwaysAnswered ==
    binPut \in {"ok", "failed"} =>
        /\ binResponse # NoResponse
        /\ binPut = "ok" => binResponse.status = 200
        /\ binPut = "failed" =>
               binResponse.status = 500 /\ binResponse.body.error = "Upload failed"

====
